---------------------------- MODULE Spec2Model ----------------------------
(***************************************************************************)
(* drf-tus: the tus resumable-upload view set of rest_framework_tus        *)
(* (views.py).  Request workers run the handlers create, info,             *)
(* partial_update and destroy of UploadViewSet against one table of upload *)
(* rows.  A handler is cut into steps at its accesses to the table         *)
(* (get_object, save, delete): between two steps of one handler the steps  *)
(* of other workers may run, as they do between the statements of two      *)
(* requests served at the same time.                                       *)
(***************************************************************************)
EXTENDS Integers, Sequences, FiniteSets, TLC

\* ---------------------------------------------------------------- bounds
MaxReqs  == 4      \* requests started in one run when uploads never expire
MaxReqsExpiring == 2   \* requests started in one run when uploads expire
MaxTime  == 1      \* last instant of the clock
MaxChunk == 1      \* longest chunk a PATCH carries
MaxLen   == 3      \* largest Upload-Length a POST carries

Procs == {1, 2}                  \* request workers
Ids   == {"u1", "u2"}            \* guids a request can name
Guids == {"u1"}                  \* guids an upload can get
Bytes == {"a"}

\* ---------------------------------------------------------- configuration
TUS_MAX_FILE_SIZE == 2
\* the values TUS_UPLOAD_EXPIRES takes: None (-1) or a duration
NoExpiry == -1
ExpiryChoices == {NoExpiry, 1}
tus_api_checksum_algorithms == {"sha1"}
Algorithms == tus_api_checksum_algorithms \cup {"crc32"}

\* ------------------------------------------------------------------ states
INITIAL   == "initial"
RECEIVING == "receiving"
SAVING    == "saving"
COMPLETED == "completed"

\* ------------------------------------------------------------------- data
Chunks == UNION {[1..n -> Bytes] : n \in 0..MaxChunk}

\* the digest of a chunk under an algorithm, over a small range
Weight(alg) == IF alg = "sha1" THEN 1 ELSE 2

RECURSIVE Digest(_, _)
Digest(alg, chunk) ==
    IF chunk = <<>> THEN 0
    ELSE (2 * Digest(alg, Tail(chunk)) + Weight(alg)) % 3

Digests == 0..2

checksum_matches(alg, digest, chunk) == Digest(alg, chunk) = digest

NoChecksum == <<>>
\* Upload-Checksum values.  The digest sent under an algorithm the server does
\* not support is not read: one value stands for it (the digest of the empty
\* chunk, and of no other).
Checksums ==
    {NoChecksum} \cup (tus_api_checksum_algorithms \X Digests)
                 \cup ((Algorithms \ tus_api_checksum_algorithms) \X {0})

NoMeta   == <<>>
FileMeta == << <<"filename", "f">> >>
Metadatas == {NoMeta, FileMeta}
json_dumps(md) == [json |-> md]

VARIABLES
    db,         \* the upload table: guid -> row
    files,      \* the chunk store: guid -> bytes written
    now,        \* the clock
    expiry,     \* tus_settings.TUS_UPLOAD_EXPIRES
    used,       \* guids handed out so far
    pc,         \* worker -> position in its handler
    rq,         \* worker -> the request it serves and the handler's locals
    last,       \* the response the step just taken has sent, with its request
    nreq,       \* requests started
    received,   \* guid -> number of received signals sent
    accepted,   \* guid -> total length of the chunks of accepted PATCHes
    terminated  \* guids a DELETE has answered 204 for

vars == <<db, files, now, expiry, used, pc, rq, last, nreq, received, accepted,
          terminated>>

NoRow  == [state |-> "none"]
NoReq  == [op |-> "none"]
NoLast == [sent |-> FALSE]

Exists(id) == id \in DOMAIN db

\* Model.save(): UPDATE of every column of the row, INSERT when no row matched
save(id, upload) == [x \in DOMAIN db \cup {id} |-> IF x = id THEN upload ELSE db[x]]

\* Model.delete()
delete(id) == [x \in DOMAIN db \ {id} |-> db[x]]

Response(status, kind, headers) ==
    [status |-> status, kind |-> kind, headers |-> headers]

Init ==
    /\ db = [i \in {} |-> NoRow]
    /\ files = [i \in Ids |-> <<>>]
    /\ now = 0
    /\ expiry \in ExpiryChoices
    /\ used = {}
    /\ pc = [p \in Procs |-> "idle"]
    /\ rq = [p \in Procs |-> NoReq]
    /\ last = NoLast
    /\ nreq = 0
    /\ received = [i \in Ids |-> 0]
    /\ accepted = [i \in Ids |-> 0]
    /\ terminated = {}

\* a request goes to the first idle worker; the clock is read only when
\* TUS_UPLOAD_EXPIRES is set, and only then does the model let it run
Budget == IF expiry = NoExpiry THEN MaxReqs ELSE MaxReqsExpiring

Free(p) ==
    /\ pc[p] = "idle"
    /\ \A q \in Procs : q < p => pc[q] # "idle"
    /\ nreq < Budget

\* the guids a request can name: one a 201 has told its client (Location),
\* or one that is no upload's
Addressable ==
    {i \in Ids : i \notin used \/ \A p \in Procs : ~(pc[p] = "c_expire" /\ rq[p].id = i)}

\* a handler returns: the response is sent and the worker is free again
Finish(p, req, r) ==
    /\ pc' = [pc EXCEPT ![p] = "idle"]
    /\ rq' = [rq EXCEPT ![p] = NoReq]
    /\ last' = [sent |-> TRUE, worker |-> p, req |-> req, resp |-> r]

\* a handler goes on to its next step with its locals
Goto(p, label, locals) ==
    /\ pc' = [pc EXCEPT ![p] = label]
    /\ rq' = [rq EXCEPT ![p] = locals]
    /\ last' = NoLast

MissingTusHeader == Response(400, "BadRequest", <<>>)
NotFound == Response(404, "NotFound", <<>>)
\* info's 404: "we need to add a cache-control header to the response"
InfoNotFound == Response(404, "NotFound", [h \in {"Cache-Control"} |-> "no-store"])

\* add_expiry_header
add_expiry_header(upload, headers) ==
    IF upload.expires # NoExpiry
    THEN [h \in DOMAIN headers \cup {"Upload-Expires"} |->
            IF h = "Upload-Expires" THEN <<"http-date", upload.expires>> ELSE headers[h]]
    ELSE headers

\* ------------------------------------------------------------------ create
\* a new row of the upload model
NewUpload(upload_length, upload_metadata) ==
    [state |-> INITIAL, upload_offset |-> 0, upload_length |-> upload_length,
     upload_metadata |-> json_dumps(upload_metadata), expires |-> NoExpiry]

\* the guid of the next row
NewGuid == CHOOSE i \in Guids \ used : TRUE

\* a size check that lets the largest size through no more
ExceedsMaxFileSize_Strict(upload_length) == upload_length >= TUS_MAX_FILE_SIZE

\* "Validate upload_length": whether the length is over TUS_MAX_FILE_SIZE
ExceedsMaxFileSize(upload_length) == upload_length > TUS_MAX_FILE_SIZE

\* a test that takes only a zero length for a length not given
LengthNotGiven_ZeroOnly(upload_length) == upload_length = 0

\* "if not upload_length or upload_length < 0"
LengthNotGiven(upload_length) == upload_length = 0 \/ upload_length < 0

\* create, up to perform_create.  A request header is drawn where the
\* handler reads it, so a response sent early knows only the headers read.
Create(p) ==
    /\ Free(p)
    /\ nreq' = nreq + 1
    /\ \E tus \in BOOLEAN :
        IF ~tus
        THEN /\ Finish(p, [op |-> "create", tus |-> tus], MissingTusHeader)
             /\ UNCHANGED <<db, used>>
        ELSE \E upload_length \in -1..MaxLen :
        IF ExceedsMaxFileSize(upload_length)
        THEN /\ Finish(p, [op |-> "create", tus |-> tus, upload_length |-> upload_length],
                       Response(413, "PayloadTooLarge", <<>>))
             /\ UNCHANGED <<db, used>>
        ELSE \E defer \in {-1, 1}, md \in Metadatas :
        LET req == [op |-> "create", tus |-> tus, upload_length |-> upload_length,
                    defer |-> defer]
        IN
        IF LengthNotGiven(upload_length) /\ defer # 1
        THEN /\ Finish(p, req, Response(400, "BadRequest", <<>>))
             /\ UNCHANGED <<db, used>>
        ELSE /\ used # Guids
             /\ LET upload == NewUpload(upload_length, md) IN
                /\ db' = save(NewGuid, upload)
                /\ used' = used \cup {NewGuid}
                /\ Goto(p, "c_expire", req @@ [id |-> NewGuid, upload |-> upload])
    /\ UNCHANGED <<files, now, expiry, received, accepted, terminated>>

\* create, from "Maybe we're auto-expiring the upload" to the response
CreateExpire(p) ==
    /\ pc[p] = "c_expire"
    /\ LET id == rq[p].id
           upload == IF expiry # NoExpiry
                     THEN [rq[p].upload EXCEPT !.expires = now + expiry]
                     ELSE rq[p].upload
       IN /\ db' = IF expiry # NoExpiry THEN save(id, upload) ELSE db
          /\ Finish(p, [x \in DOMAIN rq[p] \ {"upload"} |-> rq[p][x]],
                    Response(201, "Created",
                             add_expiry_header(upload, [h \in {"Location"} |-> id])))
    /\ UNCHANGED <<files, now, expiry, used, nreq, received, accepted, terminated>>

\* -------------------------------------------------------------------- info
\* headers that report Upload-Length whatever it is
InfoHeaders_AlwaysLength(upload) ==
    [h \in {"Upload-Offset", "Cache-Control", "Upload-Length", "Upload-Metadata"} |->
        IF h = "Upload-Offset" THEN upload.upload_offset
        ELSE IF h = "Upload-Length" THEN upload.upload_length
        ELSE IF h = "Upload-Metadata" THEN upload.upload_metadata.json
        ELSE "no-store"]

\* the headers of info's 200
InfoHeaders(upload) ==
    LET base == [h \in {"Upload-Offset", "Cache-Control"} |->
                    IF h = "Upload-Offset" THEN upload.upload_offset ELSE "no-store"]
        withLength == IF upload.upload_length >= 0
                      THEN [h \in DOMAIN base \cup {"Upload-Length"} |->
                              IF h = "Upload-Length" THEN upload.upload_length ELSE base[h]]
                      ELSE base
        withMeta == [h \in DOMAIN withLength \cup {"Upload-Metadata"} |->
                        IF h = "Upload-Metadata" THEN upload.upload_metadata.json
                        ELSE withLength[h]]
    IN add_expiry_header(upload, withMeta)

Info(p) ==
    /\ Free(p)
    /\ nreq' = nreq + 1
    /\ \E tus \in BOOLEAN :
        IF ~tus THEN Finish(p, [op |-> "info", tus |-> tus], MissingTusHeader)
        ELSE \E id \in Addressable :
        LET req == [op |-> "info", tus |-> tus, id |-> id] IN
        IF ~Exists(id) THEN Finish(p, req, InfoNotFound)
        ELSE Finish(p, req, Response(200, "OK", InfoHeaders(db[id])))
    /\ UNCHANGED <<db, files, now, expiry, used, received, accepted, terminated>>

\* ---------------------------------------------------------- partial_update
media_type == "application/offset+octet-stream"
ContentTypes == {media_type, "text/plain"}

\* validate_content_type: the response it builds for a wrong Content-Type
validate_content_type(content_type) ==
    IF content_type = "" \/ content_type # media_type
    THEN Response(400, "BadRequest", <<>>)
    ELSE NoReq

\* upload.start_receiving()
start_receiving(upload) == [upload EXCEPT !.state = RECEIVING]

\* a check that lets a stale offset through
OffsetMatches_Stale(upload_offset, upload) == upload_offset <= upload.upload_offset

\* "Validate upload_offset": whether the request's offset is the row's
OffsetMatches(upload_offset, upload) == upload_offset = upload.upload_offset

\* "Change state": the row after it, and whether it is saved
ChangeState(upload) ==
    IF upload.state = INITIAL THEN start_receiving(upload) ELSE upload

\* a check that never compares the digest
ChecksumVerdict_NoMismatch(upload_checksum, chunk_bytes) ==
    IF upload_checksum = NoChecksum THEN "ok"
    ELSE IF upload_checksum[1] \notin tus_api_checksum_algorithms THEN "unsupported"
    ELSE "ok"

\* "Check checksum": what the check of the request's checksum comes to
ChecksumVerdict(upload_checksum, chunk_bytes) ==
    IF upload_checksum = NoChecksum THEN "ok"
    ELSE IF upload_checksum[1] \notin tus_api_checksum_algorithms THEN "unsupported"
    ELSE IF ~checksum_matches(upload_checksum[1], upload_checksum[2], chunk_bytes)
    THEN "mismatch"
    ELSE "ok"

\* partial_update, up to "Validate upload_offset".  validate_content_type is
\* called and what it returns is dropped.
AppendLoad(p) ==
    /\ Free(p)
    /\ nreq' = nreq + 1
    /\ \E tus \in BOOLEAN :
        IF ~tus THEN Finish(p, [op |-> "append", tus |-> tus], MissingTusHeader)
        ELSE \E content_type \in ContentTypes, id \in Addressable :
        LET dropped == validate_content_type(content_type) IN
        IF ~Exists(id)
        THEN Finish(p, [op |-> "append", tus |-> tus, id |-> id], NotFound)
        ELSE \E upload_offset \in 0..MaxLen :
        LET req == [op |-> "append", tus |-> tus, id |-> id,
                    upload_offset |-> upload_offset]
        IN
        IF ~OffsetMatches(upload_offset, db[id])
        THEN Finish(p, req, Response(409, "Conflict", <<>>))
        ELSE Goto(p, "a_receive",
                  req @@ [content_type |-> content_type, upload |-> db[id],
                          was |-> db[id].state])
    /\ UNCHANGED <<db, files, now, expiry, used, received, accepted, terminated>>

\* partial_update, from "Make sure there is a tempfile" to the checksum check
AppendReceive(p) ==
    /\ pc[p] = "a_receive"
    /\ \E chunk_bytes \in Chunks, upload_checksum \in Checksums :
        LET id == rq[p].id
            upload == ChangeState(rq[p].upload)
            req == [op |-> "append", tus |-> TRUE, id |-> id,
                    upload_offset |-> rq[p].upload_offset,
                    chunk_bytes |-> chunk_bytes, upload_checksum |-> upload_checksum]
            verdict == ChecksumVerdict(upload_checksum, chunk_bytes)
        IN
        /\ db' = IF rq[p].upload.state = INITIAL THEN save(id, upload) ELSE db
        /\ IF verdict = "unsupported"
           THEN Finish(p, req, Response(400, "UnsupportedChecksumAlgorithm", <<>>))
           ELSE IF verdict = "mismatch"
           THEN Finish(p, req, Response(460, "ChecksumMismatch", <<>>))
           ELSE Goto(p, "a_write", req @@ [upload |-> upload, was |-> rq[p].was])
    /\ UNCHANGED <<files, now, expiry, used, nreq, received, accepted, terminated>>

\* upload.write_data, first half: the row goes to Saving for the write
AppendWrite(p) ==
    /\ pc[p] = "a_write"
    /\ LET upload == [rq[p].upload EXCEPT !.state = SAVING] IN
        /\ db' = save(rq[p].id, upload)
        /\ Goto(p, "a_saving",
                [x \in DOMAIN rq[p] \ {"upload_checksum"} |->
                    IF x = "upload" THEN upload ELSE rq[p][x]]
                @@ [prior |-> rq[p].upload.state])
    /\ UNCHANGED <<files, now, expiry, used, nreq, received, accepted, terminated>>

\* the state write_data leaves the row in after a write
StateAfterWrite(upload) ==
    IF upload.upload_length >= 0 /\ upload.upload_offset = upload.upload_length
    THEN COMPLETED
    ELSE RECEIVING

\* the chunk store's append
append(id, chunk_bytes) == [files EXCEPT ![id] = @ \o chunk_bytes]

\* the chunk store's discard
discard(id) == [files EXCEPT ![id] = <<>>]

\* upload.write_data, the row after an acknowledged write
write_data_done(upload, chunk_bytes) ==
    LET advanced == [upload EXCEPT !.upload_offset = @ + Len(chunk_bytes)]
    IN [advanced EXCEPT !.state = StateAfterWrite(advanced)]

\* upload.write_data, the row after a write that raised
write_data_failed(upload, prior) == [upload EXCEPT !.state = prior]

\* partial_update from the write's outcome to the response
AppendSaved(p) ==
    /\ pc[p] = "a_saving"
    /\ LET id == rq[p].id
           chunk_bytes == rq[p].chunk_bytes
           req == [x \in DOMAIN rq[p] \ {"upload", "prior", "was"} |-> rq[p][x]]
       IN
       \/ \* the write is acknowledged
          LET upload == write_data_done(rq[p].upload, chunk_bytes) IN
          /\ files' = append(id, chunk_bytes)
          /\ db' = save(id, upload)
          /\ received' = IF upload.upload_length = upload.upload_offset
                         THEN [received EXCEPT ![id] = @ + 1]
                         ELSE received
          /\ accepted' = [accepted EXCEPT ![id] = @ + Len(chunk_bytes)]
          /\ Finish(p, req,
                    Response(204, "NoContent",
                             add_expiry_header(upload,
                                 [h \in {"Upload-Offset"} |-> upload.upload_offset])))
       \/ \* the write raises
          LET upload == write_data_failed(rq[p].upload, rq[p].prior) IN
          /\ db' = save(id, upload)
          /\ Finish(p, req, Response(400, "WriteFailed", <<>>))
          /\ UNCHANGED <<files, received, accepted>>
    /\ UNCHANGED <<now, expiry, used, nreq, terminated>>

\* ----------------------------------------------------------------- destroy
\* destroy, up to the state check
TerminateLoad(p) ==
    /\ Free(p)
    /\ nreq' = nreq + 1
    /\ \E id \in Addressable :
        LET req == [op |-> "terminate", id |-> id] IN
        IF ~Exists(id) THEN Finish(p, req, NotFound)
        ELSE IF db[id].state = SAVING THEN Finish(p, req, Response(409, "Conflict", <<>>))
        ELSE Goto(p, "t_destroy", req)
    /\ UNCHANGED <<db, files, now, expiry, used, received, accepted, terminated>>

\* destroy, perform_destroy and the response
TerminateDestroy(p) ==
    /\ pc[p] = "t_destroy"
    /\ db' = delete(rq[p].id)
    /\ files' = discard(rq[p].id)
    /\ terminated' = terminated \cup {rq[p].id}
    /\ Finish(p, rq[p], Response(204, "NoContent", <<>>))
    /\ UNCHANGED <<now, expiry, used, nreq, received, accepted>>

\* ------------------------------------------------------------------- sweep
Expired(upload) == upload.expires # NoExpiry /\ now >= upload.expires

\* the background sweep reclaims an expired row and its bytes
Sweep ==
    /\ \E id \in DOMAIN db :
        /\ Expired(db[id])
        /\ db' = delete(id)
        /\ files' = discard(id)
    /\ last' = NoLast
    /\ UNCHANGED <<now, expiry, used, pc, rq, nreq, received, accepted, terminated>>

\* ------------------------------------------------------------------- clock
Tick ==
    /\ expiry # NoExpiry
    /\ now < MaxTime
    /\ now' = now + 1
    /\ last' = NoLast
    /\ UNCHANGED <<db, files, expiry, used, pc, rq, nreq, received, accepted, terminated>>

Next ==
    \/ Tick
    \/ Sweep
    \/ \E p \in Procs : Create(p)
    \/ \E p \in Procs : CreateExpire(p)
    \/ \E p \in Procs : Info(p)
    \/ \E p \in Procs : AppendLoad(p)
    \/ \E p \in Procs : AppendReceive(p)
    \/ \E p \in Procs : AppendWrite(p)
    \/ \E p \in Procs : AppendSaved(p)
    \/ \E p \in Procs : TerminateLoad(p)
    \/ \E p \in Procs : TerminateDestroy(p)

Spec == Init /\ [][Next]_vars

-----------------------------------------------------------------------------
\* The properties.  A step is told by what it leaves behind: a worker that
\* was idle and is busy, or whose response has just been sent.

\* worker p takes the first step of a request
Started(p) ==
    /\ pc[p] = "idle"
    /\ nreq' = nreq + 1
    /\ pc'[p] # "idle" \/ (last'.sent /\ last'.worker = p)

\* worker p takes the step of its handler that it is at
Stepped(p, label) == pc[p] = label /\ pc'[p] # label

\* the request of the step worker p has just taken, as far as it was read
ReqOf(p) == IF pc'[p] # "idle" THEN rq'[p] ELSE last'.req

\* worker p has passed the offset check of a PATCH and has not answered yet
InAppend(p) == pc[p] \in {"a_receive", "a_write", "a_saving"}

\* worker p is at, or inside, the write of a chunk that holds bytes
Writing(p) == pc[p] \in {"a_write", "a_saving"} /\ Len(rq[p].chunk_bytes) > 0

\* C1: two PATCHes of one upload that carry the same Upload-Offset are never
\* both past the offset check and both writing: the check, the write and the
\* advance of the offset of one are not interleaved with the other's.
C1_AppendsSerialized ==
    \A p, q \in Procs :
        (p # q /\ InAppend(p) /\ InAppend(q) /\ rq[p].id = rq[q].id
              /\ rq[p].upload_offset = rq[q].upload_offset)
            => ~(Writing(p) /\ Writing(q))

\* C2: a PATCH on an existing upload whose Upload-Offset differs from the row's
\* offset is answered 409 Conflict, and the table and the stored bytes are
\* after it what they were before it.
C2_ConflictLeavesRecord ==
    [][\A p \in Procs :
        (/\ Started(p)
         /\ ReqOf(p).op = "append"
         /\ ReqOf(p).tus
         /\ Exists(ReqOf(p).id)
         /\ ReqOf(p).upload_offset # db[ReqOf(p).id].upload_offset)
        => (/\ last'.sent
            /\ last'.resp.status = 409
            /\ last'.resp.kind = "Conflict"
            /\ db' = db
            /\ files' = files)]_vars

\* C2, its case: a second PATCH at offset 0 after a first one was accepted
C2_StaleOffsetConflict ==
    /\ last.sent
    /\ last.req.op = "append"
    /\ last.resp.kind = "Conflict"
    /\ Exists(last.req.id)
    /\ accepted[last.req.id] > 0
    /\ last.req.upload_offset < db[last.req.id].upload_offset

\* the request declares a digest, under a supported algorithm, that is not
\* the digest of its chunk
DeclaresWrongChecksum(req) ==
    /\ req.upload_checksum # NoChecksum
    /\ req.upload_checksum[1] \in tus_api_checksum_algorithms
    /\ Digest(req.upload_checksum[1], req.chunk_bytes) # req.upload_checksum[2]

\* C3: a PATCH that declares a checksum its chunk does not have is answered
\* 460 Checksum Mismatch, advances no row's offset and does not reach the
\* write: no byte is stored and the handler is over.
C3_ChecksumGatesWrite ==
    [][\A p \in Procs :
        (Stepped(p, "a_receive") /\ DeclaresWrongChecksum(ReqOf(p)))
        => (/\ last'.sent
            /\ last'.worker = p
            /\ last'.resp.status = 460
            /\ last'.resp.kind = "ChecksumMismatch"
            /\ pc'[p] = "idle"
            /\ files' = files
            /\ \A i \in DOMAIN db : db'[i].upload_offset <= db[i].upload_offset)]_vars

\* C3, its case: a wrong checksum on the first chunk of an upload of deferred
\* length
C3_DeferredChecksumMismatch ==
    /\ last.sent
    /\ last.req.op = "append"
    /\ last.resp.kind = "ChecksumMismatch"
    /\ Len(last.req.chunk_bytes) > 0
    /\ Exists(last.req.id)
    /\ db[last.req.id].upload_length = -1
    /\ db[last.req.id].upload_offset = 0
    /\ files[last.req.id] = <<>>

\* worker p has just answered the request it was serving
Answered(p) == last'.sent /\ last'.worker = p

\* C4: a PATCH refused for its checksum (algorithm not supported, or digest
\* wrong) leaves the table and the stored bytes as they were: an upload that
\* was Initial is Initial after it.
C4_RejectedAppendLeavesRecord ==
    [][\A p \in Procs :
        (/\ Stepped(p, "a_receive")
         /\ Answered(p)
         /\ last'.resp.kind \in {"UnsupportedChecksumAlgorithm", "ChecksumMismatch"})
        => (db' = db /\ files' = files)]_vars

\* C5: a PATCH whose write fails is answered WriteFailed and leaves the row
\* with the offset and the state it had when the PATCH read it.
C5_WriteFailureReverts ==
    [][\A p \in Procs :
        (Stepped(p, "a_saving") /\ Answered(p) /\ last'.resp.kind = "WriteFailed")
        => (/\ rq[p].id \in DOMAIN db'
            /\ db'[rq[p].id].upload_offset = rq[p].upload_offset
            /\ db'[rq[p].id].state = rq[p].was)]_vars

\* the request carries what the handler asks of every request
HasTus(req) == req.op = "terminate" \/ req.tus

\* worker p starts an info, a PATCH or a DELETE
StartedOp(p) ==
    /\ Started(p)
    /\ ReqOf(p).op \in {"info", "append", "terminate"}
    /\ HasTus(ReqOf(p))

\* C6: once now >= expires of an upload, an info, a PATCH and a DELETE on
\* its guid are answered 404 and change nothing, swept or not.
C6_ExpiredIsNotFound ==
    [][\A p \in Procs :
        (/\ StartedOp(p)
         /\ Exists(ReqOf(p).id)
         /\ Expired(db[ReqOf(p).id]))
        => (/\ Answered(p)
            /\ last'.resp.status = 404
            /\ db' = db
            /\ files' = files)]_vars

\* C7: after a DELETE of a guid was answered 204, every info, PATCH and DELETE
\* that starts on that guid is answered 404.
C7_TerminationFinal ==
    [][\A p \in Procs :
        (StartedOp(p) /\ ReqOf(p).id \in terminated)
        => (Answered(p) /\ last'.resp.status = 404)]_vars

\* a row is Completed exactly when its length is known and reached
CompletionExact ==
    \A i \in DOMAIN db :
        (db[i].state = COMPLETED)
            <=> (db[i].upload_length >= 0 /\ db[i].upload_offset = db[i].upload_length)

\* C8: a row is Completed exactly when its length is known and its offset is
\* that length, and no PATCH that read the row Completed is accepted.
C8_CompletionExact ==
    /\ []CompletionExact
    /\ [][\A p \in Procs :
            (Stepped(p, "a_saving") /\ Answered(p) /\ rq[p].was = COMPLETED)
            => last'.resp.status # 204]_vars

\* C9: the offset of a row never decreases, and after every accepted PATCH it
\* is the total length of the chunks accepted for the upload.
C9_OffsetIsSumOfAccepted ==
    /\ [][\A i \in DOMAIN db \cap DOMAIN db' :
            db'[i].upload_offset >= db[i].upload_offset]_vars
    /\ [](last.sent /\ last.req.op = "append" /\ last.resp.status = 204
            => /\ Exists(last.req.id)
               /\ db[last.req.id].upload_offset = accepted[last.req.id])

\* C10: the offset of a row of known length stays within 0..length.
C10_OffsetWithinLength ==
    \A i \in DOMAIN db :
        db[i].upload_length >= 0
            => (0 <= db[i].upload_offset /\ db[i].upload_offset <= db[i].upload_length)

\* C11: the received signal is sent at most once for an upload, and only by a
\* PATCH that read the row short of Completed and leaves it Completed with its
\* offset at its length.
C11_ReceivedOnce ==
    /\ [](\A i \in Ids : received[i] <= 1)
    /\ [][\A p \in Procs :
            (Stepped(p, "a_saving") /\ received' # received)
            => (/\ rq[p].was # COMPLETED
                /\ rq[p].id \in DOMAIN db'
                /\ db'[rq[p].id].state = COMPLETED
                /\ db'[rq[p].id].upload_length >= 0
                /\ db'[rq[p].id].upload_offset = db'[rq[p].id].upload_length)]_vars

\* worker q is inside the write of a chunk to upload id
WriteInFlight(q, id) == pc[q] = "a_saving" /\ rq[q].id = id

\* C12: a DELETE that finds the row Saving is answered 409 and removes
\* nothing; no row is deleted while a write to it is in flight; and a DELETE
\* that starts when no PATCH is at work on the row is not answered 409.
C12_NoDeleteDuringWrite ==
    [][\A p \in Procs :
        /\ (/\ Started(p)
            /\ ReqOf(p).op = "terminate"
            /\ Exists(ReqOf(p).id)
            /\ db[ReqOf(p).id].state = SAVING)
           => (/\ Answered(p)
               /\ last'.resp.status = 409
               /\ db' = db
               /\ files' = files)
        /\ Stepped(p, "t_destroy")
           => \A q \in Procs : ~WriteInFlight(q, rq[p].id)
        /\ (/\ Started(p)
            /\ ReqOf(p).op = "terminate"
            /\ Exists(ReqOf(p).id)
            /\ \A q \in Procs : ~(InAppend(q) /\ rq[q].id = ReqOf(p).id))
           => ~(Answered(p) /\ last'.resp.status = 409)]_vars

\* worker p starts a POST that carries the Tus-Resumable header
StartedCreate(p) == Started(p) /\ ReqOf(p).op = "create" /\ ReqOf(p).tus

\* C13: a POST whose Upload-Length is over TUS_MAX_FILE_SIZE is answered 413
\* and makes no row; a POST whose Upload-Length is in 0..TUS_MAX_FILE_SIZE is
\* not answered 413.
C13_MaxFileSize ==
    [][\A p \in Procs :
        StartedCreate(p)
        => /\ ReqOf(p).upload_length > TUS_MAX_FILE_SIZE
              => (/\ Answered(p)
                  /\ last'.resp.status = 413
                  /\ last'.resp.kind = "PayloadTooLarge"
                  /\ db' = db
                  /\ used' = used)
           /\ ReqOf(p).upload_length \in 0..TUS_MAX_FILE_SIZE
              => ~(Answered(p) /\ last'.resp.status = 413)]_vars

\* C13, its case: a POST over the maximum size refused while an upload exists
C13_TooLargeRefused ==
    /\ last.sent
    /\ last.req.op = "create"
    /\ last.req.tus
    /\ last.req.upload_length = TUS_MAX_FILE_SIZE + 1
    /\ last.resp.kind = "PayloadTooLarge"
    /\ DOMAIN db # {}

\* C14: a POST without Upload-Length (-1) and without Upload-Defer-Length: 1
\* is answered 400 and makes no row; with Upload-Defer-Length: 1 it makes a
\* row of length -1 and is answered 201 with the row's length still -1.
C14_DeferredNeedsSignal ==
    /\ [][\A p \in Procs :
            (StartedCreate(p) /\ ReqOf(p).upload_length = -1)
            => /\ ReqOf(p).defer # 1
                  => (/\ Answered(p)
                      /\ last'.resp.status = 400
                      /\ last'.resp.kind = "BadRequest"
                      /\ db' = db
                      /\ used' = used)
               /\ ReqOf(p).defer = 1
                  => (/\ pc'[p] = "c_expire"
                      /\ rq'[p].id \notin DOMAIN db
                      /\ DOMAIN db' = DOMAIN db \cup {rq'[p].id}
                      /\ db'[rq'[p].id].upload_length = -1)]_vars
    /\ [][\A p \in Procs :
            (Stepped(p, "c_expire") /\ rq[p].upload_length = -1)
            => (/\ Answered(p)
                /\ last'.resp.status = 201
                /\ rq[p].id \in DOMAIN db'
                /\ db'[rq[p].id].upload_length = -1)]_vars

\* C14, its case: an upload of deferred length exists, and a POST without a
\* length and without the defer header has just been refused
C14_DeferRefusedAndGranted ==
    /\ last.sent
    /\ last.req.op = "create"
    /\ last.req.tus
    /\ last.req.upload_length = -1
    /\ last.req.defer # 1
    /\ last.resp.kind = "BadRequest"
    /\ \E i \in DOMAIN db : db[i].upload_length = -1

\* every row carries its expiry when TUS_UPLOAD_EXPIRES is set
EveryRowExpires ==
    expiry # NoExpiry => \A i \in DOMAIN db : db[i].expires # NoExpiry

CopiesAgree ==
    \A p \in Procs :
        ("upload" \in DOMAIN rq[p] /\ rq[p].id \in DOMAIN db)
        => /\ rq[p].upload.upload_metadata = db[rq[p].id].upload_metadata
           /\ rq[p].upload.upload_length = db[rq[p].id].upload_length

\* C16: no step changes the metadata of a row, or its length when that is
\* known; an info changes neither the table nor the stored bytes, and its 200
\* carries Upload-Length, with the row's length, exactly when that is known.
C16_FieldsFrozen ==
    /\ []CopiesAgree
    /\ [][\A i \in DOMAIN db \cap DOMAIN db' :
            /\ db'[i].upload_metadata = db[i].upload_metadata
            /\ db[i].upload_length >= 0 => db'[i].upload_length = db[i].upload_length]_vars
    /\ [][\A p \in Procs :
            (Started(p) /\ ReqOf(p).op = "info")
            => /\ Answered(p)
               /\ db' = db
               /\ files' = files
               /\ last'.resp.status = 200
                  => LET upload == db[last'.req.id]
                         headers == last'.resp.headers
                     IN /\ "Upload-Length" \in DOMAIN headers <=> upload.upload_length >= 0
                        /\ "Upload-Length" \in DOMAIN headers
                              => headers["Upload-Length"] = upload.upload_length]_vars

\* C16, its case: an info on an upload of deferred length that has metadata
\* and accepted bytes before it
C16_InfoOnDeferred ==
    /\ last.sent
    /\ last.req.op = "info"
    /\ last.resp.status = 200
    /\ "Upload-Length" \notin DOMAIN last.resp.headers
    /\ accepted[last.req.id] > 0
    /\ db[last.req.id].upload_metadata = json_dumps(FileMeta)
    /\ db[last.req.id].upload_length = -1

\* C17: a PATCH with an empty chunk that is answered 204 leaves the row with
\* the state and the offset it had when the PATCH read it, and answers that
\* offset.
C17_EmptyChunkIsNoOp ==
    [][\A p \in Procs :
        (/\ Stepped(p, "a_saving")
         /\ rq[p].chunk_bytes = <<>>
         /\ Answered(p)
         /\ last'.resp.status = 204)
        => (/\ rq[p].id \in DOMAIN db'
            /\ db'[rq[p].id].state = rq[p].was
            /\ db'[rq[p].id].upload_offset = rq[p].upload_offset
            /\ last'.resp.headers["Upload-Offset"] = rq[p].upload_offset)]_vars

\* C18: a POST with Upload-Length: 0 and without Upload-Defer-Length: 1 is not
\* answered 400: it makes a row of length 0, not -1.
C18_ZeroLengthIsKnown ==
    [][\A p \in Procs :
        (/\ StartedCreate(p)
         /\ ReqOf(p).upload_length = 0
         /\ ReqOf(p).defer # 1)
        => (/\ ~(Answered(p) /\ last'.resp.status = 400)
            /\ pc'[p] = "c_expire"
            /\ rq'[p].id \in DOMAIN db'
            /\ db'[rq'[p].id].upload_length = 0)]_vars

\* the error kinds of a PATCH
AppendErrorKinds ==
    {"BadRequest", "Conflict", "UnsupportedChecksumAlgorithm", "ChecksumMismatch",
     "WriteFailed"}

\* the response just sent refuses a PATCH
AppendRefused(l) ==
    l.sent /\ l.req.op = "append" /\ l.resp.kind \in AppendErrorKinds

\* C19: two PATCHes refused one after the other for errors of different kinds
\* are answered with different statuses.
C19_ErrorKindsTellApart ==
    [][(AppendRefused(last) /\ AppendRefused(last')
            /\ last.resp.kind # last'.resp.kind)
        => last.resp.status # last'.resp.status]_vars

\* C20: a PATCH without Tus-Resumable is answered 400 and changes nothing;
\* a PATCH whose Content-Type is not the parser's media type is answered 400
\* at the step after its offset check, and that step changes nothing.
C20_PreconditionsGate ==
    [][\A p \in Procs :
        /\ (Started(p) /\ ReqOf(p).op = "append" /\ ~ReqOf(p).tus)
           => (/\ Answered(p)
               /\ last'.resp.status = 400
               /\ db' = db
               /\ files' = files)
        /\ (Stepped(p, "a_receive") /\ rq[p].content_type # media_type)
           => (/\ Answered(p)
               /\ last'.resp.status = 400
               /\ last'.resp.kind = "BadRequest"
               /\ db' = db
               /\ files' = files)]_vars

=============================================================================
